---- MODULE Spec2Model ----
(***************************************************************************)
(* Model of peckr (src/src/main.rs): an ICMP probe that resolves a host,   *)
(* runs a send/record loop next to a Ctrl-C watcher task, and reports a    *)
(* verdict computed from the accumulated PingStats.                        *)
(*                                                                         *)
(* Numbers.  Durations are whole nanoseconds (std::time::Duration).        *)
(* u64 / i64 values that take part in the `as i64` cast are "wide"         *)
(* integers [hi, lo] denoting hi * 2^63 + lo with 0 <= lo < 2^63, so that  *)
(* the cast of a u64 at or above 2^63 is modelled by what it does.         *)
(* f64 values are exact fractions [num, den]; for the counters this model  *)
(* reaches (sent < 20) and whole-number thresholds the IEEE-754 result of  *)
(* (a / b) * 100.0 compares with the threshold exactly as the fraction     *)
(* does.                                                                   *)
(***************************************************************************)
EXTENDS Integers, Sequences, FiniteSets, TLC

\* ---------------------------------------------------------------- bounds
\* Largest packet count configured, and the number of packets after which
\* an endless run is no longer followed.
MaxSeq == 2

\* ------------------------------------------------------------- constants
NanosPerMilli == 1000000

\* Round-trip times the transport may report, in nanoseconds:
\* 0.4 ms, 1.6 ms and 30 ms.
RttChoices == {400000, 1600000, 30000000}

\* Failure reasons of one echo attempt.
ErrTimeout == "Request timeout"
ErrTransport == "transport error"

\* --------------------------------------------------------------- options
None == <<>>
Some(x) == <<x>>

\* ------------------------------------------------------ wide integers
Wide(h, l) == [hi |-> h, lo |-> l]

WideLe(a, b) == (a.hi < b.hi) \/ (a.hi = b.hi /\ a.lo <= b.lo)

\* `x as i64` for a u64 x: values at or above 2^63 wrap to x - 2^64.
u64_as_i64(x) == IF x.hi = 1 THEN Wide(-1, x.lo) ELSE x

\* `x as i64` for the u128 of Duration::as_millis: the same number, every
\* duration the model reaches being far below 2^63 ms.
u128_as_i64(ms) == ms

\* ------------------------------------------------------------- fractions
RECURSIVE Gcd(_, _)
Gcd(a, b) == IF b = 0 THEN a ELSE Gcd(b, a % b)

Frac(n, d) == LET g == Gcd(n, d) IN [num |-> n \div g, den |-> d \div g]

FracLe(x, y) == x.num * y.den <= y.num * x.den

\* ----------------------------------------------------------------- Args
Counts == 0 .. MaxSeq
MaxLosses == {Frac(0, 1), Frac(50, 1), Frac(100, 1)}
MaxLatencies == {Wide(0, 1), Wide(0, 100), Wide(1, 0)}

Args == [target : {"host"}, count : Counts, max_loss : MaxLosses,
         max_latency : MaxLatencies, server_name : {None}, quiet : BOOLEAN]

\* ------------------------------------------------------------- PingStats
PingStats_new == [sent |-> 0, received |-> 0, total_rtt |-> 0]

\* Variant: the share of replies instead of the share of losses, and 0 for
\* an empty run.
packet_loss_of_replies(stats) ==
    IF stats.sent = 0
      THEN Frac(0, 1)
      ELSE Frac(stats.received * 100, stats.sent)

packet_loss(stats) ==
    IF stats.sent = 0
      THEN Frac(100, 1)
      ELSE Frac((stats.sent - stats.received) * 100, stats.sent)

\* Variant: the average taken over the packets sent.
avg_rtt_over_sent(stats) ==
    IF stats.received = 0
      THEN 0
      ELSE stats.total_rtt \div stats.sent

avg_rtt(stats) ==
    IF stats.received = 0
      THEN 0
      ELSE stats.total_rtt \div stats.received

update_with_success(stats, rtt) ==
    [sent |-> stats.sent + 1,
     received |-> stats.received + 1,
     total_rtt |-> stats.total_rtt + rtt]

\* Variant: a failed attempt counted as a reply.
update_with_failure_counts_reply(stats) == [stats EXCEPT !.received = @ + 1]

\* Variant: a failed attempt left out of the statistics.
update_with_failure_not_counted(stats) == stats

update_with_failure(stats) == [stats EXCEPT !.sent = @ + 1]

as_millis(d) == d \div NanosPerMilli

\* --------------------------------------------------------- create_result
servername(cfg) ==
    IF cfg.server_name = None THEN cfg.target ELSE cfg.server_name[1]

\* Variant: the verdict without the zero-latency conjunct.
create_result_without_zero_check(cfg, stats) ==
    LET loss == packet_loss(stats)
        avg == u128_as_i64(as_millis(avg_rtt(stats)))
        success == /\ FracLe(loss, cfg.max_loss)
                   /\ WideLe(Wide(0, avg), u64_as_i64(cfg.max_latency))
    IN [checkname |-> "ping",
        servername |-> servername(cfg),
        resulttype |-> "site",
        success |-> success,
        error |-> None,
        data |-> Some([latency |-> avg,
                       packetloss |-> loss,
                       packets_sent |-> stats.sent,
                       packets_received |-> stats.received])]

create_result(cfg, stats) ==
    LET loss == packet_loss(stats)
        avg == u128_as_i64(as_millis(avg_rtt(stats)))
        success == /\ FracLe(loss, cfg.max_loss)
                   /\ WideLe(Wide(0, avg), u64_as_i64(cfg.max_latency))
                   /\ avg # 0
    IN [checkname |-> "ping",
        servername |-> servername(cfg),
        resulttype |-> "site",
        success |-> success,
        error |-> None,
        data |-> Some([latency |-> avg,
                       packetloss |-> loss,
                       packets_sent |-> stats.sent,
                       packets_received |-> stats.received])]

\* Variant: the resolution failure reported with an empty data block
\* next to the error.
dns_failure_result_with_data(cfg) ==
    [checkname |-> "ping",
     servername |-> servername(cfg),
     resulttype |-> "site",
     success |-> FALSE,
     error |-> Some("DNS resolution failed"),
     data |-> Some([latency |-> 0,
                    packetloss |-> Frac(100, 1),
                    packets_sent |-> 0,
                    packets_received |-> 0])]

dns_failure_result(cfg) ==
    [checkname |-> "ping",
     servername |-> servername(cfg),
     resulttype |-> "site",
     success |-> FALSE,
     error |-> Some("DNS resolution failed"),
     data |-> None]

\* ----------------------------------------------------------------- state
VARIABLES
    config,       \* Args, fixed for the run
    pc,           \* position of main
    stats,        \* the PingStats behind the mutex
    guard,        \* holder of the stats mutex: "none", "loop", "summary"
    sequence,     \* loop counter
    ping_result,  \* result of the echo attempt being recorded
    ctrl_c,       \* watcher task: "unspawned", "spawned" (not yet polled,
                  \* no SIGINT handler), "running" (handler installed,
                  \* waiting), "signalled" (the handler has taken a SIGINT,
                  \* the task has not been polled since), "finished"
    output,       \* kinds of the lines printed so far
    records,      \* structured records printed so far
    exit_status,  \* "running", "success", "failure", "killed"
    attempts,     \* history: sequence numbers handed to send_single_ping
    outcomes,     \* history: results of the finished echo attempts
    interrupt,    \* history: phase and sent when the handler took SIGINT
    completion    \* history: phase and sent when the watcher finished

vars == <<config, pc, stats, guard, sequence, ping_result, ctrl_c, output,
          records, exit_status, attempts, outcomes, interrupt, completion>>

Ok(rtt) == [ok |-> TRUE, rtt |-> rtt, err |-> ""]
Err(e) == [ok |-> FALSE, rtt |-> 0, err |-> e]

Init ==
    /\ config \in Args
    /\ pc = "resolve"
    /\ stats = PingStats_new
    /\ guard = "none"
    /\ sequence = 0
    /\ ping_result = None
    /\ ctrl_c = "unspawned"
    /\ output = <<>>
    /\ records = <<>>
    /\ exit_status = "running"
    /\ attempts = <<>>
    /\ outcomes = <<>>
    /\ interrupt = None
    /\ completion = None

\* ------------------------------------------------------------- resolving
ResolveOk ==
    /\ pc = "resolve"
    /\ pc' = IF config.quiet THEN "client" ELSE "info"
    /\ UNCHANGED <<config, stats, guard, sequence, ping_result, ctrl_c,
                   output, records, exit_status, attempts, outcomes,
                   interrupt, completion>>

\* The error record is printed and main returns the error; the process
\* ends only once the runtime has been shut down (ProcessExit).
ResolveErr ==
    /\ pc = "resolve"
    /\ records' = Append(records, dns_failure_result(config))
    /\ output' = Append(output, "result")
    /\ pc' = "return_err"
    /\ UNCHANGED <<config, stats, guard, sequence, ping_result, ctrl_c,
                   exit_status, attempts, outcomes, interrupt, completion>>

\* The first startup line.
InfoPing ==
    /\ pc = "info"
    /\ output' = Append(output, "info")
    /\ pc' = IF config.count = 0 THEN "info_endless" ELSE "client"
    /\ UNCHANGED <<config, stats, guard, sequence, ping_result, ctrl_c,
                   records, exit_status, attempts, outcomes, interrupt,
                   completion>>

\* The second startup line, of an endless run.
InfoEndless ==
    /\ pc = "info_endless"
    /\ output' = Append(output, "info")
    /\ pc' = "client"
    /\ UNCHANGED <<config, stats, guard, sequence, ping_result, ctrl_c,
                   records, exit_status, attempts, outcomes, interrupt,
                   completion>>

ClientOk ==
    /\ pc = "client"
    /\ stats' = PingStats_new
    /\ sequence' = 0
    /\ ctrl_c' = "spawned"
    /\ pc' = "loop"
    /\ UNCHANGED <<config, guard, ping_result, output, records, exit_status,
                   attempts, outcomes, interrupt, completion>>

ClientErr ==
    /\ pc = "client"
    /\ pc' = "return_err"
    /\ UNCHANGED <<config, stats, guard, sequence, ping_result, ctrl_c,
                   output, records, exit_status, attempts, outcomes,
                   interrupt, completion>>

\* ------------------------------------------------------------ the watcher
\* First poll of the spawned task, on a worker thread some time after the
\* spawn: signal::ctrl_c() installs the SIGINT handler and waits.
WatcherInstall ==
    /\ ctrl_c = "spawned"
    /\ exit_status = "running"
    /\ ctrl_c' = "running"
    /\ UNCHANGED <<config, pc, stats, guard, sequence, ping_result, output,
                   records, exit_status, attempts, outcomes, interrupt,
                   completion>>

\* Where main is in its iteration: an attempt is in flight or about to be
\* recorded, the attempt has been recorded and the watcher is about to be
\* checked, main sleeps or is at the top of the loop, or the loop is over.
Phase ==
    CASE pc \in {"await", "record"} -> "attempt"
      [] pc \in {"print", "check"} -> "recorded"
      [] pc \in {"loop", "sleep"} -> "idle"
      [] OTHER -> "after"

\* A SIGINT taken by the installed handler: it notifies the runtime's signal
\* driver and returns; the watcher task is not finished yet and main goes
\* on.
CtrlC ==
    /\ ctrl_c = "running"
    /\ exit_status = "running"
    /\ ctrl_c' = "signalled"
    /\ interrupt' = Some([phase |-> Phase, sent |-> stats.sent])
    /\ UNCHANGED <<config, pc, stats, guard, sequence, ping_result, output,
                   records, exit_status, attempts, outcomes, completion>>

\* A worker thread polls the notified watcher: signal::ctrl_c().await
\* returns and the task completes; from here on is_finished() is true.
WatcherFinish ==
    /\ ctrl_c = "signalled"
    /\ exit_status = "running"
    /\ ctrl_c' = "finished"
    /\ completion' = Some([phase |-> Phase, sent |-> stats.sent])
    /\ UNCHANGED <<config, pc, stats, guard, sequence, ping_result, output,
                   records, exit_status, attempts, outcomes, interrupt>>

\* A SIGINT that arrives while no handler is installed (during resolution,
\* the startup lines and client creation, after the spawn until the first
\* poll of the watcher, and, when the watcher was never polled or never
\* spawned, up to the end of the process after main has returned): the
\* default action ends the process where it stands, with nothing more
\* printed.
SigintDefault ==
    /\ ctrl_c \in {"unspawned", "spawned"}
    /\ exit_status = "running"
    /\ exit_status' = "killed"
    /\ pc' = "killed"
    /\ UNCHANGED <<config, stats, guard, sequence, ping_result, ctrl_c,
                   output, records, attempts, outcomes, interrupt,
                   completion>>

\* ------------------------------------------------------------- the loop
\* Variant: the bound compared with > instead of >=.
count_reached_off_by_one(cfg, seq) == cfg.count > 0 /\ seq > cfg.count

\* Variant: the bound applied to a count of 0 as well.
count_reached_ignores_endless(cfg, seq) == seq >= cfg.count

count_reached(cfg, seq) == cfg.count > 0 /\ seq >= cfg.count

\* Variant: the watcher is consulted at the top of the loop as well.
LoopBreakCount_or_interrupt ==
    /\ pc = "loop"
    /\ (count_reached(config, sequence) \/ ctrl_c = "finished")
    /\ pc' = "drain"
    /\ UNCHANGED <<config, stats, guard, sequence, ping_result, ctrl_c,
                   output, records, exit_status, attempts, outcomes,
                   interrupt, completion>>

LoopBreakCount ==
    /\ pc = "loop"
    /\ count_reached(config, sequence)
    /\ pc' = "drain"
    /\ UNCHANGED <<config, stats, guard, sequence, ping_result, ctrl_c,
                   output, records, exit_status, attempts, outcomes,
                   interrupt, completion>>

SendPing ==
    /\ pc = "loop"
    /\ ~count_reached(config, sequence)
    /\ sequence < MaxSeq
    /\ attempts' = Append(attempts, sequence)
    /\ pc' = "await"
    /\ UNCHANGED <<config, stats, guard, sequence, ping_result, ctrl_c,
                   output, records, exit_status, outcomes, interrupt,
                   completion>>

PingDone(res) ==
    /\ pc = "await"
    /\ ping_result' = Some(res)
    /\ outcomes' = Append(outcomes, res)
    /\ pc' = "record"
    /\ UNCHANGED <<config, stats, guard, sequence, ctrl_c, output, records,
                   exit_status, attempts, interrupt, completion>>

PingReply == \E rtt \in RttChoices : PingDone(Ok(rtt))

PingTransportError == PingDone(Err(ErrTransport))

PingTimeout == PingDone(Err(ErrTimeout))

\* Lock, update and, for a reply in non-quiet mode, the explicit drop; the
\* reply line is printed by the awaited print_ping_result that follows.
Record ==
    /\ pc = "record"
    /\ guard = "none"
    /\ LET res == ping_result[1] IN
         IF res.ok
           THEN /\ stats' = update_with_success(stats, res.rtt)
                /\ guard' = IF config.quiet THEN "loop" ELSE "none"
                /\ pc' = IF config.quiet THEN "check" ELSE "print"
                /\ sequence' = IF config.quiet THEN sequence + 1 ELSE sequence
                /\ output' = output
           ELSE /\ stats' = update_with_failure(stats)
                /\ guard' = "loop"
                /\ pc' = "check"
                /\ sequence' = sequence + 1
                /\ output' = IF config.quiet THEN output
                             ELSE Append(output, "error")
    /\ ping_result' = IF pc' = "print" THEN ping_result ELSE None
    /\ UNCHANGED <<config, ctrl_c, records, exit_status, attempts, outcomes,
                   interrupt, completion>>

PrintReply ==
    /\ pc = "print"
    /\ output' = Append(output, "reply")
    /\ sequence' = sequence + 1
    /\ ping_result' = None
    /\ pc' = "check"
    /\ UNCHANGED <<config, stats, guard, ctrl_c, records, exit_status,
                   attempts, outcomes, interrupt, completion>>

\* Variant: the break on interrupt leaves the guard held.
CheckBreak_keeps_guard ==
    /\ pc = "check"
    /\ ctrl_c = "finished"
    /\ pc' = "drain"
    /\ UNCHANGED <<config, stats, guard, sequence, ping_result, ctrl_c,
                   output, records, exit_status, attempts, outcomes,
                   interrupt, completion>>

CheckBreak ==
    /\ pc = "check"
    /\ ctrl_c = "finished"
    /\ guard' = "none"
    /\ pc' = "drain"
    /\ UNCHANGED <<config, stats, sequence, ping_result, ctrl_c, output,
                   records, exit_status, attempts, outcomes, interrupt,
                   completion>>

\* Variant: the loop goes on to sleep without consulting the watcher.
CheckContinue_ignores_flag ==
    /\ pc = "check"
    /\ pc' = "sleep"
    /\ UNCHANGED <<config, stats, guard, sequence, ping_result, ctrl_c,
                   output, records, exit_status, attempts, outcomes,
                   interrupt, completion>>

\* Variant: a bounded run goes on to sleep whatever the watcher says.
CheckContinue_bounded_ignores_flag ==
    /\ pc = "check"
    /\ (ctrl_c # "finished" \/ config.count > 0)
    /\ pc' = "sleep"
    /\ UNCHANGED <<config, stats, guard, sequence, ping_result, ctrl_c,
                   output, records, exit_status, attempts, outcomes,
                   interrupt, completion>>

CheckContinue ==
    /\ pc = "check"
    /\ ctrl_c # "finished"
    /\ pc' = "sleep"
    /\ UNCHANGED <<config, stats, guard, sequence, ping_result, ctrl_c,
                   output, records, exit_status, attempts, outcomes,
                   interrupt, completion>>

SleepDone ==
    /\ pc = "sleep"
    /\ guard' = "none"
    /\ pc' = "loop"
    /\ UNCHANGED <<config, stats, sequence, ping_result, ctrl_c, output,
                   records, exit_status, attempts, outcomes, interrupt,
                   completion>>

\* ------------------------------------------------------ drain and report
\* In quiet mode nothing is printed; otherwise the lock is taken and
\* print_statistics prints its header line.
DrainSummary ==
    /\ pc = "drain"
    /\ IF config.quiet
         THEN /\ pc' = "report"
              /\ UNCHANGED <<output, guard>>
         ELSE /\ guard = "none"
              /\ guard' = "summary"
              /\ output' = Append(output, "summary")
              /\ pc' = "summary"
    /\ UNCHANGED <<config, stats, sequence, ping_result, ctrl_c, records,
                   exit_status, attempts, outcomes, interrupt, completion>>

\* The counters line; without replies print_statistics returns here and the
\* summary guard goes out of scope.
SummaryCounts ==
    /\ pc = "summary"
    /\ output' = Append(output, "summary")
    /\ IF stats.received > 0
         THEN /\ pc' = "summary_avg"
              /\ guard' = guard
         ELSE /\ pc' = "report"
              /\ guard' = "none"
    /\ UNCHANGED <<config, stats, sequence, ping_result, ctrl_c, records,
                   exit_status, attempts, outcomes, interrupt, completion>>

\* The average line, after which the summary guard goes out of scope.
SummaryAvg ==
    /\ pc = "summary_avg"
    /\ output' = Append(output, "avg")
    /\ guard' = "none"
    /\ pc' = "report"
    /\ UNCHANGED <<config, stats, sequence, ping_result, ctrl_c, records,
                   exit_status, attempts, outcomes, interrupt, completion>>

\* The final read under the lock, the record, and Ok(()) returned.
FinalReport ==
    /\ pc = "report"
    /\ guard = "none"
    /\ records' = Append(records, create_result(config, stats))
    /\ output' = Append(output, "result")
    /\ pc' = "return_ok"
    /\ UNCHANGED <<config, stats, guard, sequence, ping_result, ctrl_c,
                   exit_status, attempts, outcomes, interrupt, completion>>

\* main has returned: the runtime is shut down and the process ends with
\* the status of main's result.
ProcessExit ==
    /\ pc \in {"return_ok", "return_err"}
    /\ exit_status = "running"
    /\ exit_status' = IF pc = "return_ok" THEN "success" ELSE "failure"
    /\ pc' = "exit"
    /\ UNCHANGED <<config, stats, guard, sequence, ping_result, ctrl_c,
                   output, records, attempts, outcomes, interrupt,
                   completion>>

Next ==
    \/ ResolveOk
    \/ ResolveErr
    \/ InfoPing
    \/ InfoEndless
    \/ ClientOk
    \/ ClientErr
    \/ WatcherInstall
    \/ CtrlC
    \/ WatcherFinish
    \/ SigintDefault
    \/ LoopBreakCount
    \/ SendPing
    \/ PingReply
    \/ PingTransportError
    \/ PingTimeout
    \/ Record
    \/ PrintReply
    \/ CheckBreak
    \/ CheckContinue
    \/ SleepDone
    \/ DrainSummary
    \/ SummaryCounts
    \/ SummaryAvg
    \/ FinalReport
    \/ ProcessExit

Spec == Init /\ [][Next]_vars

\* The steps of main and of the end of the process.  The runtime keeps
\* running the main task while it can take a step: an echo attempt ends by
\* its deadline, a sleep ends, a free lock is acquired.  The spawned watcher
\* is polled in the end, after the spawn and after its handler has taken a
\* signal.  Nothing obliges the interrupt to arrive.
MainStep ==
    \/ ResolveOk
    \/ ResolveErr
    \/ InfoPing
    \/ InfoEndless
    \/ ClientOk
    \/ ClientErr
    \/ LoopBreakCount
    \/ SendPing
    \/ PingReply
    \/ PingTransportError
    \/ PingTimeout
    \/ Record
    \/ PrintReply
    \/ CheckBreak
    \/ CheckContinue
    \/ SleepDone
    \/ DrainSummary
    \/ SummaryCounts
    \/ SummaryAvg
    \/ FinalReport
    \/ ProcessExit

FairSpec ==
    Spec /\ WF_vars(MainStep) /\ WF_vars(WatcherInstall) /\ WF_vars(WatcherFinish)

\* ==================================================================
\* Properties
\* ==================================================================

\* What the finished echo attempts amount to, read off the history.
RECURSIVE NumOk(_)
NumOk(os) ==
    IF os = <<>> THEN 0
    ELSE (IF Head(os).ok THEN 1 ELSE 0) + NumOk(Tail(os))

RECURSIVE SumRtt(_)
SumRtt(os) ==
    IF os = <<>> THEN 0
    ELSE (IF Head(os).ok THEN Head(os).rtt ELSE 0) + SumRtt(Tail(os))

InLoop == pc \in {"loop", "await", "record", "print", "check", "sleep"}

\* The loop has been left for the summary and the report.
LoopExited ==
    \/ pc \in {"drain", "summary", "summary_avg", "report", "return_ok"}
    \/ (pc = "exit" /\ exit_status = "success")

\* The record of a run whose loop completed has been printed.
Reported == pc = "return_ok" \/ (pc = "exit" /\ exit_status = "success")

\* C1: whatever the thresholds, the average latency in whole milliseconds
\* is 0 when nothing was received, and a verdict whose average latency is
\* 0 is never successful; this holds of the verdict of every reachable
\* PingStats under every configuration and of every record printed.
C1_ZeroLatencyNeverSucceeds ==
    /\ stats.received = 0 => as_millis(avg_rtt(stats)) = 0
    /\ \A ml \in MaxLosses, mt \in MaxLatencies :
         LET cfg == [config EXCEPT !.max_loss = ml, !.max_latency = mt]
             r == create_result(cfg, stats)
         IN
           /\ stats.received = 0 => r.data[1].latency = 0
           /\ r.data[1].latency = 0 => ~r.success
    /\ \A i \in 1 .. Len(records) :
         (records[i].data # None /\ records[i].data[1].latency = 0)
            => ~records[i].success

\* A run in which every attempt failed has been reported with the loss
\* threshold at 100.
C1_Witness ==
    /\ Reported
    /\ config.max_loss = Frac(100, 1)
    /\ stats.sent = MaxSeq /\ stats.received = 0
    /\ records[1].data[1].latency = 0
    /\ ~records[1].success

\* C2: the printed verdict is (loss <= max_loss) and (average latency in
\* whole milliseconds <= max_latency) and (that latency # 0), both
\* comparisons inclusive and taken on the configured numbers themselves,
\* the latency being total_rtt / received truncated to milliseconds and
\* reported as data.latency.
C2_VerdictFormula ==
    Reported =>
      LET r == records[1]
          n == NumOk(outcomes)
          ms == IF n = 0 THEN 0 ELSE (SumRtt(outcomes) \div n) \div NanosPerMilli
          lossOk == IF Len(outcomes) = 0 THEN config.max_loss.num >= 100 * config.max_loss.den
                    ELSE (Len(outcomes) - n) * 100 * config.max_loss.den
                            <= config.max_loss.num * Len(outcomes)
      IN /\ r.data[1].latency = ms
         /\ r.success = (lossOk /\ WideLe(Wide(0, ms), config.max_latency) /\ ms # 0)

\* C3: every printed record has exactly one of error / data; the record of
\* a resolution failure has the error, no data and success = FALSE; the
\* record of a run whose loop completed has the data and no error.
C3_ExactlyOneOfErrorData ==
    /\ \A i \in 1 .. Len(records) :
         (records[i].error = None) # (records[i].data = None)
    /\ (pc \in {"return_err", "exit"} /\ ctrl_c = "unspawned"
          /\ records # <<>>)
         => /\ records[1].error # None
            /\ records[1].data = None
            /\ ~records[1].success
    /\ Reported
         => /\ records[Len(records)].data # None
            /\ records[Len(records)].error = None

\* A resolution failure has been reported.
C3_Witness ==
    /\ pc = "exit" /\ exit_status = "failure"
    /\ ctrl_c = "unspawned"
    /\ Len(records) = 1
    /\ records[1].error # None /\ records[1].data = None

\* C4: received <= sent in every state of a run.
C4_ReceivedLeSent == stats.received <= stats.sent

\* Successes and failures have both been recorded.
C4_Witness ==
    /\ stats.received >= 1
    /\ stats.received < stats.sent
    /\ \E i \in 1 .. Len(outcomes) : ~outcomes[i].ok

\* C5: packet_loss lies in [0, 100]; with sent > 0 it is
\* (sent - received) / sent * 100 with sent - received not negative, and
\* with sent = 0 it is exactly 100.
C5_PacketLossRange ==
    LET l == packet_loss(stats) IN
      /\ FracLe(Frac(0, 1), l) /\ FracLe(l, Frac(100, 1))
      /\ stats.sent = 0 => l = Frac(100, 1)
      /\ stats.sent > 0 =>
           /\ stats.sent - stats.received >= 0
           /\ l.num * stats.sent = (stats.sent - stats.received) * 100 * l.den

\* A loss strictly between 0 and 100 has been computed from a run with
\* replies and failures.
C5_Witness ==
    /\ stats.sent = MaxSeq /\ stats.received = 1
    /\ packet_loss(stats) = Frac((MaxSeq - 1) * 100, MaxSeq)

\* C6: a bounded run of N packets that no interrupt ended reports
\* packets_sent = N, packets_received = the number of successful attempts,
\* latency = floor(sum of their durations / received) in milliseconds (0
\* without replies) and packetloss = (N - received) / N * 100; total_rtt is
\* the sum of the durations of the successful attempts alone.
C6_BoundedRunReport ==
    (Reported /\ config.count > 0 /\ ctrl_c # "finished") =>
      LET d == records[1].data[1]
          N == config.count
          n == NumOk(outcomes)
      IN /\ Len(outcomes) = N
         /\ d.packets_sent = N
         /\ d.packets_received = n
         /\ stats.total_rtt = SumRtt(outcomes)
         /\ d.latency = IF n = 0 THEN 0
                        ELSE SumRtt(outcomes) \div (n * NanosPerMilli)
         /\ d.packetloss = Frac((N - n) * 100, N)

\* A full-length run with one failure and replies of 1.6 ms otherwise has
\* been reported with latency 1.
C6_Witness ==
    /\ Reported /\ config.count = MaxSeq /\ ctrl_c # "finished"
    /\ stats.received = MaxSeq - 1
    /\ stats.total_rtt = (MaxSeq - 1) * 1600000
    /\ records[1].data[1].latency = 1
    /\ records[1].data[1].packets_sent = MaxSeq

\* C7: a bounded run of N never starts more than N echo attempts, starts
\* exactly N when no interrupt was seen, and attempts the counters
\* 0 .. N-1 once each in increasing order, a failed one included.
C7_BoundedAttempts ==
    config.count > 0 =>
      /\ Len(attempts) <= config.count
      /\ \A i \in 1 .. Len(attempts) : attempts[i] = i - 1
      /\ Len(outcomes) <= Len(attempts)
      /\ (LoopExited /\ ctrl_c # "finished") => Len(attempts) = config.count

\* A full-length bounded run with a failed attempt has left the loop.
C7_Witness ==
    /\ LoopExited /\ config.count = MaxSeq /\ ctrl_c # "finished"
    /\ Len(attempts) = MaxSeq
    /\ ~outcomes[1].ok

\* C8: with count = 0 the loop has left Running for Draining only in states
\* where the watcher has finished, and while the watcher has not finished
\* no step but the arrival of the interrupt signal itself takes the loop
\* out of Running.
C8_EndlessLeavesOnlyOnInterrupt ==
    /\ []((config.count = 0 /\ LoopExited) => ctrl_c = "finished")
    /\ [][(config.count = 0 /\ InLoop /\ ctrl_c # "finished" /\ ~InLoop')
            => (pc' = "killed" /\ exit_status' = "killed")]_vars

\* An endless run has sent several packets and then left the loop.
C8_Witness ==
    /\ config.count = 0 /\ LoopExited
    /\ stats.sent = MaxSeq

\* C9 as stated: with count = 0, an interrupt raised after the k-th packet
\* was recorded and before the next one is sent (k >= 1) ends the loop with
\* sent = k.
C9_Original ==
    (config.count = 0 /\ LoopExited /\ interrupt # None
       /\ interrupt[1].sent >= 1
       /\ interrupt[1].phase \in {"recorded", "idle"})
      => stats.sent = interrupt[1].sent

\* C9 amended: with count = 0, an interrupt that the handler takes after
\* the k-th packet was recorded ends the loop at the first check of the
\* watcher that follows the completion of the watcher task, never with
\* fewer than k packets: with sent = k when the task completes before the
\* k-th iteration's check, and otherwise one full cycle after the cycle
\* in which the task completes (sent = k + 1 when it completes during the
\* sleep or the next attempt); an interrupt taken during the sleep or once
\* the next attempt is under way gives sent >= k + 1.  Every attempt
\* started has then been recorded.  An interrupt that arrives before the
\* watcher has installed its handler ends the process instead, with no
\* summary and no verdict printed.
C9_InterruptEndsWithinOneCycle ==
    /\ (config.count = 0 /\ LoopExited) =>
         /\ interrupt # None /\ completion # None
         /\ completion[1].sent >= interrupt[1].sent
         /\ stats.sent = IF completion[1].phase = "recorded"
                           THEN completion[1].sent
                           ELSE completion[1].sent + 1
         /\ stats.sent >= IF interrupt[1].phase = "recorded"
                            THEN interrupt[1].sent
                            ELSE interrupt[1].sent + 1
         /\ Len(attempts) = stats.sent
         /\ Len(outcomes) = stats.sent
    /\ (config.count = 0 /\ pc = "killed") =>
         /\ ctrl_c \in {"unspawned", "spawned"}
         /\ interrupt = None
         /\ "summary" \notin {output[i] : i \in 1 .. Len(output)}
         /\ \A i \in 1 .. Len(records) : records[i].data = None

\* The interrupt came between the first record and its check, the watcher
\* completed only during the sleep that followed, and the loop ended with
\* sent = 2.
C9_Witness ==
    /\ config.count = 0 /\ LoopExited
    /\ interrupt = Some([phase |-> "recorded", sent |-> 1])
    /\ completion = Some([phase |-> "idle", sent |-> 1])
    /\ stats.sent = 2

\* C10 as stated: in a bounded run the loop never sleeps once the
\* count-th packet has been recorded.
C10_NoSleepAfterLastPacket ==
    ~(config.count > 0 /\ pc = "sleep" /\ sequence >= config.count)

\* Number of structured records among the lines printed.
RECURSIVE NumResults(_)
NumResults(out) ==
    IF out = <<>> THEN 0
    ELSE (IF Head(out) = "result" THEN 1 ELSE 0) + NumResults(Tail(out))

\* C11 as stated: every execution that has terminated has printed the
\* structured record exactly once, as the last line printed.
C11_RecordPrintedOnceAndLast ==
    pc = "exit" =>
      /\ Len(records) = 1
      /\ NumResults(output) = 1
      /\ output[Len(output)] = "result"

\* C12 as stated: the process ends with failure status only when the
\* resolution failed, the error record having been printed.
C12_FailureOnlyOnResolution ==
    (pc = "exit" /\ exit_status = "failure")
      => records = <<dns_failure_result(config)>>

\* C13: recording a failed attempt, a timeout or a transport error alike,
\* adds exactly 1 to sent, leaves received and total_rtt as they were and
\* moves the loop counter on by one.
C13_FailureOnlyIncrementsSent ==
    [][(pc = "record" /\ pc' \notin {"record", "killed"} /\ ~ping_result[1].ok
          /\ ping_result[1].err \in {ErrTimeout, ErrTransport})
        => /\ stats' = [stats EXCEPT !.sent = @ + 1]
           /\ sequence' = sequence + 1
           /\ pc' = "check"]_vars

\* A timeout and then a transport error have been recorded, the second
\* attempt having been started with the next sequence number after the
\* first failure; nothing was received and the counter has moved on again.
C13_Witness ==
    /\ Len(outcomes) = 2
    /\ outcomes[1].err = ErrTimeout /\ outcomes[2].err = ErrTransport
    /\ stats = [sent |-> 2, received |-> 0, total_rtt |-> 0]
    /\ attempts = <<0, 1>>
    /\ sequence = 2 /\ pc = "loop"

\* C14 as stated: a reported run with replies has a non-zero average
\* latency in whole milliseconds, and is reported successful when it meets
\* both thresholds.
C14_RepliesGiveNonZeroLatency ==
    (Reported /\ stats.received > 0) =>
      LET r == records[1] IN
        /\ r.data[1].latency # 0
        /\ (/\ FracLe(r.data[1].packetloss, config.max_loss)
            /\ WideLe(Wide(0, r.data[1].latency), config.max_latency)
            /\ config.max_latency.hi = 0)
             => r.success

\* C15 as stated: the loop never holds the stats lock while it awaits an
\* echo reply or sleeps the inter-packet interval.
C15_NoLockAcrossSuspension ==
    pc \in {"await", "sleep"} => guard = "none"

\* C16 as stated: every attempt started is recorded once, as a success or
\* as a failure, before the next one starts or the run ends, whenever the
\* interrupt arrives: at the iteration boundaries, from Draining on and in
\* a run that the interrupt has ended, sent is the number of attempts
\* started and every one of them has its outcome recorded; while an
\* attempt is in flight or being recorded sent is one less.
C16_EveryAttemptRecordedOnce ==
    /\ (pc \in {"loop", "check", "sleep", "killed"} \/ LoopExited) =>
         /\ stats.sent = Len(attempts)
         /\ Len(outcomes) = Len(attempts)
         /\ stats.received = NumOk(outcomes)
         /\ stats.total_rtt = SumRtt(outcomes)
    /\ (pc \in {"loop", "check", "sleep"} \/ LoopExited) =>
         stats.sent = sequence
    /\ pc \in {"await", "record"} =>
         /\ stats.sent = Len(attempts) - 1
         /\ stats.sent = sequence
    /\ pc = "print" =>
         /\ stats.sent = Len(attempts)
         /\ stats.sent = sequence + 1

\* C17 as stated: under fairness of main and of the watcher's first poll, a
\* bounded run that has entered the loop eventually terminates with its
\* record printed, whatever the transport outcomes and whether or not the
\* interrupt is raised.
C17_BoundedRunTerminates ==
    (config.count > 0 /\ pc = "loop") ~> (Reported /\ Len(records) = 1)

\* Echo attempts started by the time the watcher finished.
StartedAtCompletion ==
    completion[1].sent
      + (IF completion[1].phase = "attempt" THEN 1 ELSE 0)

\* C18 as stated: an interrupt arriving during an echo await ends the loop
\* right after that attempt is recorded.
C18_Original ==
    (config.count = 0 /\ LoopExited /\ interrupt # None
       /\ interrupt[1].phase = "attempt")
      => stats.sent = interrupt[1].sent + 1

\* C18 amended: once the watcher task has finished the loop starts at most
\* one further echo attempt.  A watcher that finishes during an attempt or
\* before the check that follows its record is followed by no further
\* attempt; one that finishes during the sleep (or at the top of the loop)
\* is followed by exactly one attempt in an endless run, and the loop has
\* then left with every started attempt recorded.  The watcher finishes
\* only after its handler has taken the interrupt, main going on in
\* between, so an interrupt that arrives during an attempt ends the loop
\* after that attempt or after a later one.  A sleeping loop only ever goes
\* on to the top of the loop.
C18_Inv ==
    /\ (completion # None) = (ctrl_c = "finished")
    /\ completion # None =>
         /\ interrupt # None
         /\ completion[1].sent >= interrupt[1].sent
         /\ Len(attempts) <= StartedAtCompletion + 1
         /\ completion[1].phase \in {"attempt", "recorded"}
              => Len(attempts) = StartedAtCompletion
         /\ (LoopExited /\ completion[1].phase \in {"attempt", "recorded"})
              => stats.sent = StartedAtCompletion
         /\ (LoopExited /\ completion[1].phase = "idle"
               /\ config.count = 0)
              => stats.sent = StartedAtCompletion + 1
         /\ (InLoop /\ Len(attempts) = StartedAtCompletion + 1)
              => pc \in {"await", "record", "print", "check"}
    /\ (config.count = 0 /\ LoopExited /\ interrupt # None
          /\ interrupt[1].phase = "attempt")
         => stats.sent >= interrupt[1].sent + 1

C18_AtMostOneAttemptAfterInterrupt ==
    /\ []C18_Inv
    /\ [][(pc = "sleep" /\ ctrl_c = "finished") => pc' \in {"sleep", "loop"}]_vars

\* The handler took the interrupt during the first attempt, the watcher
\* finished during the sleep that followed; the second attempt was sent and
\* recorded and the loop then left.
C18_Witness ==
    /\ LoopExited /\ config.count = 0
    /\ interrupt = Some([phase |-> "attempt", sent |-> 0])
    /\ completion = Some([phase |-> "idle", sent |-> 1])
    /\ stats.sent = 2 /\ Len(attempts) = 2

\* C19: the loop is left, and the verdict built, only with sent >= 1, so
\* the reported loss never comes from the sent = 0 branch of packet_loss.
C19_AtLeastOnePacket ==
    /\ LoopExited => (stats.sent >= 1 /\ Len(attempts) >= 1)
    /\ Reported =>
         /\ records[1].data[1].packets_sent >= 1
         /\ records[1].data[1].packetloss
              = Frac((stats.sent - stats.received) * 100, stats.sent)

\* The interrupt was raised before the first iteration and the run was
\* reported with one packet sent.
C19_Witness ==
    /\ Reported
    /\ interrupt = Some([phase |-> "idle", sent |-> 0])
    /\ records[1].data[1].packets_sent = 1

\* C20: the stats lock is free wherever main is about to take it (before
\* the record, before the summary, before the final read) and once main
\* has ended, both steps of Draining can be taken, and the final record
\* carries the statistics of every recorded iteration.
C20_LockNeverBlocks ==
    /\ pc \in {"loop", "await", "record", "print", "drain", "report",
               "return_ok", "return_err", "exit"}
         => guard = "none"
    /\ pc \in {"summary", "summary_avg"} => guard = "summary"
    /\ pc = "record" => ENABLED Record
    /\ pc = "drain" => ENABLED DrainSummary
    /\ pc = "report" => ENABLED FinalReport
    /\ Reported =>
         /\ records[1].data[1].packets_sent = Len(outcomes)
         /\ records[1].data[1].packets_received = NumOk(outcomes)

\* A non-quiet run whose last attempt failed was ended by the watcher
\* finishing just before the check, with the guard held at the break, and has printed summary and record.
C20_Witness ==
    /\ Reported /\ ~config.quiet
    /\ completion # None /\ completion[1].phase = "recorded"
    /\ ~outcomes[Len(outcomes)].ok
    /\ \E i \in 1 .. Len(output) : output[i] = "summary"

====
